---------------------------- MODULE Spec2Model ----------------------------
(***************************************************************************)
(* A model of the Azure PostgreSQL MCP adapters of sahmadov/datev-mcp.     *)
(*                                                                         *)
(* Three copies of the class AzurePostgreSQLMCP exist:                     *)
(*   "improved"  src/src/AzurePostgresMCP.py    (read-only, used by        *)
(*               src/src/main.py)                                          *)
(*   "minimal"   src/src/AzurePostgreSQLMCP.py  (read-only)                *)
(*   "rw"        src/src/azure_postgres_mcp.py  (read/write, has its own   *)
(*               __main__ block)                                           *)
(*                                                                         *)
(* A Python str is a sequence of atoms, every atom a non-empty piece of    *)
(* text (one character, or a literal chunk of a message): "" is << >>.     *)
(* The database driver (psycopg 3), the identity provider, the control     *)
(* plane and the database engine are the environment: their outcomes are   *)
(* chosen with \E in the actions, their documented semantics are written   *)
(* where the code calls them.                                              *)
(***************************************************************************)
EXTENDS Naturals, Sequences, FiniteSets, TLC

VARIABLES
    variant,      \* which copy of the adapter class runs
    launch,       \* "main" (main.py), "rwmain" (azure_postgres_mcp.py __main__), "direct"
    environ,      \* os.environ: name -> str, None when the variable is unset
    pc,           \* position of the process
    waited,       \* main.py: iterations done of the 120-step debugging wait
    testResult,   \* main.py: what test_database_connection returned
    testLog,      \* main.py: the connection methods test_database_connection tried
    exitStatus,   \* status passed to sys.exit (NoStatus while running)
    interrupted,  \* a KeyboardInterrupt was delivered
    startupFailure, \* the startup stage that failed ("" when none did)
    registered,   \* tools registered with mcp.add_tool, in order
    resources,    \* resource URIs registered with mcp.add_resource
    ran,          \* mcp.run() was invoked
    self,         \* the adapter object's attributes
    constructed,  \* "no" | "ok" | "failed"
    initOp,       \* what the construction did (events, exception)
    idp,          \* tokens the identity provider has issued so far
    db,           \* committed state of the database
    calls,        \* tool invocations made so far
    lastOp,       \* the last tool invocation: arguments, events, outcome
    threads,      \* tool invocations running side by side: each one's locals
    connections   \* the connections psycopg.connect has returned, in order

vars == << variant, launch, environ, pc, waited, testResult, testLog, exitStatus,
           interrupted, startupFailure, registered, resources, ran, self,
           constructed, initOp, idp, db, calls, lastOp, threads, connections >>

----------------------------------------------------------------------------
(* Bounds of the model *)

\* tool invocations made in one behaviour
MaxCalls == 2
\* rows the table users may hold
MaxRows == 1
\* variables in which the environment differs from a complete configuration
MaxDeviations == 1
\* tool invocations the host runs side by side
NumThreads == 2

----------------------------------------------------------------------------
(* Python values *)

None == << "<None>" >>
NoAttr == << "<no attribute>" >>
CredentialObj == << "<DefaultAzureCredential>" >>
ClientObj == << "<PostgreSQLManagementClient>" >>

StrTrue == << "T", "r", "u", "e" >>
StrFalse == << "F", "a", "l", "s", "e" >>

\* bool(x) of a str, None or object
Truthy(x) == x # None /\ x # << >>

Digits == << "0", "1", "2", "3", "4", "5", "6", "7", "8", "9" >>

\* the n-th bearer token of the identity provider: every get_token call
\* answers with a token of its own
Token(n) == << "t", "o", "k", Digits[n + 1] >>

----------------------------------------------------------------------------
(* The process environment *)

EnvNames == { "PGHOST", "PGUSER", "PGPASSWORD", "AZURE_USE_AAD",
              "AZURE_SUBSCRIPTION_ID", "AZURE_RESOURCE_GROUP" }

\* The values each variable takes, in the order the initial states are
\* listed: set, unset and (for one variable of each group: always required,
\* password mode, managed-identity mode) empty.
EnvValues(name) ==
    CASE name = "PGHOST" -> << << "s", ".", "d" >>, None, << >> >>
      [] name = "PGUSER" -> << << "u", "@", "s" >>, None >>
      [] name = "PGPASSWORD" -> << << "p", "@", "w" >>, None, << >>, << "*" >> >>
      [] name = "AZURE_USE_AAD" -> << StrFalse, StrTrue, None >>
      [] name = "AZURE_SUBSCRIPTION_ID" -> << << "i", "d" >>, None, << >> >>
      [] OTHER -> << << "r", "g" >>, None >>

\* os.environ.get(name, default)
os_environ_get(name, default) ==
    IF environ[name] = None THEN default ELSE environ[name]

----------------------------------------------------------------------------
(* String helpers of the adapters *)

Unreserved == { "s", "d", "u", "p", "w", "i", "r", "g", ".", "_", "-", "~", "/" }

PercentCode(c) ==
    CASE c = "@" -> << "%", "4", "0" >>
      [] c = "*" -> << "%", "2", "A" >>
      [] c = " " -> << "%", "2", "0" >>
      [] OTHER -> << "%", "3", "F" >>

RECURSIVE quote(_)
\* urllib.parse.quote(s): every character outside the unreserved set (and "/")
\* becomes its percent code
quote(s) ==
    IF s = << >> THEN << >>
    ELSE (IF Head(s) \in Unreserved THEN << Head(s) >> ELSE PercentCode(Head(s)))
         \o quote(Tail(s))

\* s.split(".", 1)[0] if "." in s else s
ShortName(s) ==
    IF \E i \in 1..Len(s) : s[i] = "."
    THEN LET first == CHOOSE i \in 1..Len(s) :
                          s[i] = "." /\ \A j \in 1..(i - 1) : s[j] # "."
         IN  SubSeq(s, 1, first - 1)
    ELSE s

----------------------------------------------------------------------------
(* Construction of the adapter *)

\* The attributes before init runs: the read/write copy has an __init__ that
\* sets defaults, the other two copies have no attribute until init sets it.
BlankSelf(v) ==
    IF v = "rw"
    THEN [ aad_in_use |-> None, dbhost |-> << >>, dbuser |-> << >>,
           password |-> << >>, subscription_id |-> None,
           resource_group_name |-> None, server_name |-> None,
           credential |-> None, postgresql_client |-> None ]
    ELSE [ aad_in_use |-> NoAttr, dbhost |-> NoAttr, dbuser |-> NoAttr,
           password |-> NoAttr, subscription_id |-> NoAttr,
           resource_group_name |-> NoAttr, server_name |-> NoAttr,
           credential |-> NoAttr, postgresql_client |-> NoAttr ]

\* get_environ_variable(name): raises EnvironmentError only when the variable
\* is unset (value is None); an empty value is returned as it is
get_environ_variable(name) ==
    [ raised |-> environ[name] = None, value |-> environ[name] ]

\* the default of os.environ.get("AZURE_USE_AAD", ...) in each copy
AadDefault(v) == IF v = "improved" THEN StrFalse ELSE None

\* only the improved copy rejects an empty PGPASSWORD ("if not password")
RejectsEmptyPassword(v) == v = "improved"

\* get_password that percent-encodes PGPASSWORD the way init encodes PGUSER
get_password_quoted(v, obj, tokenOk, issued) ==
    IF obj.aad_in_use = StrTrue
    THEN IF tokenOk
         THEN [ raised |-> FALSE, exc |-> "", value |-> Token(issued + 1),
                issued |-> issued + 1, trace |-> << "get_token" >> ]
         ELSE [ raised |-> TRUE, exc |-> "ClientAuthenticationError",
                value |-> None, issued |-> issued, trace |-> << "get_token" >> ]
    ELSE LET g == get_environ_variable("PGPASSWORD")
         IN  IF g.raised
             THEN [ raised |-> TRUE, exc |-> "EnvironmentError", value |-> None,
                    issued |-> issued, trace |-> << "environ:PGPASSWORD" >> ]
             ELSE IF RejectsEmptyPassword(v) /\ ~Truthy(g.value)
             THEN [ raised |-> TRUE, exc |-> "ValueError", value |-> None,
                    issued |-> issued, trace |-> << "environ:PGPASSWORD" >> ]
             ELSE [ raised |-> FALSE, exc |-> "", value |-> quote(g.value),
                    issued |-> issued, trace |-> << "environ:PGPASSWORD" >> ]

\* get_password(): the token of a get_token call in managed-identity mode,
\* PGPASSWORD otherwise.  tokenOk: the identity provider can issue a token.
get_password(v, obj, tokenOk, issued) ==
    IF obj.aad_in_use = StrTrue
    THEN IF tokenOk
         THEN [ raised |-> FALSE, exc |-> "", value |-> Token(issued + 1),
                issued |-> issued + 1, trace |-> << "get_token" >> ]
         ELSE [ raised |-> TRUE, exc |-> "ClientAuthenticationError",
                value |-> None, issued |-> issued, trace |-> << "get_token" >> ]
    ELSE LET g == get_environ_variable("PGPASSWORD")
         IN  IF g.raised
             THEN [ raised |-> TRUE, exc |-> "EnvironmentError", value |-> None,
                    issued |-> issued, trace |-> << "environ:PGPASSWORD" >> ]
             ELSE IF RejectsEmptyPassword(v) /\ ~Truthy(g.value)
             THEN [ raised |-> TRUE, exc |-> "ValueError", value |-> None,
                    issued |-> issued, trace |-> << "environ:PGPASSWORD" >> ]
             ELSE [ raised |-> FALSE, exc |-> "", value |-> g.value,
                    issued |-> issued, trace |-> << "environ:PGPASSWORD" >> ]

InitFailed(obj, trace, exc, issued) ==
    [ ok |-> FALSE, exc |-> exc, obj |-> obj, trace |-> trace, issued |-> issued ]

\* The managed-identity block of init: runs when aad_in_use == "True".
InitAadBlock(obj, trace, issued) ==
    LET sub == get_environ_variable("AZURE_SUBSCRIPTION_ID")
        rg  == get_environ_variable("AZURE_RESOURCE_GROUP")
        t1  == trace \o << "environ:AZURE_SUBSCRIPTION_ID" >>
        t2  == t1 \o << "environ:AZURE_RESOURCE_GROUP" >>
    IN  IF sub.raised
        THEN InitFailed(obj, t1, "EnvironmentError", issued)
        ELSE IF rg.raised
        THEN InitFailed([ obj EXCEPT !.subscription_id = sub.value ], t2,
                        "EnvironmentError", issued)
        ELSE [ ok |-> TRUE, exc |-> "",
               obj |-> [ obj EXCEPT !.subscription_id = sub.value,
                                    !.resource_group_name = rg.value,
                                    !.server_name = ShortName(obj.dbhost),
                                    !.credential = CredentialObj,
                                    !.postgresql_client = ClientObj ],
               trace |-> t2 \o << "DefaultAzureCredential()",
                                  "PostgreSQLManagementClient()" >>,
               issued |-> issued ]

\* InitPassword that keeps the token out of self.password in managed-identity
\* mode
InitPassword_token_not_stored(v, obj, trace, tokenOk, issued) ==
    LET p == get_password(v, obj, tokenOk, issued)
    IN  IF p.raised
        THEN InitFailed(obj, trace \o p.trace, p.exc, p.issued)
        ELSE [ ok |-> TRUE, exc |-> "",
               obj |-> IF obj.aad_in_use = StrTrue THEN obj
                       ELSE [ obj EXCEPT !.password = p.value ],
               trace |-> trace \o p.trace, issued |-> p.issued ]

\* The last statement of init: self.password = self.get_password()
InitPassword(v, obj, trace, tokenOk, issued) ==
    LET p == get_password(v, obj, tokenOk, issued)
    IN  IF p.raised
        THEN InitFailed(obj, trace \o p.trace, p.exc, p.issued)
        ELSE [ ok |-> TRUE, exc |-> "", obj |-> [ obj EXCEPT !.password = p.value ],
               trace |-> trace \o p.trace, issued |-> p.issued ]

\* init that resolves the password before the managed-identity block
init_password_first(v, tokenOk, issued) ==
    LET s0   == [ BlankSelf(v) EXCEPT
                    !.aad_in_use = os_environ_get("AZURE_USE_AAD", AadDefault(v)) ]
        t0   == << "environ:AZURE_USE_AAD", "environ:PGHOST" >>
        host == get_environ_variable("PGHOST")
        user == get_environ_variable("PGUSER")
        s1   == [ s0 EXCEPT !.dbhost = host.value ]
        t1   == t0 \o << "environ:PGUSER" >>
        s2   == [ s1 EXCEPT !.dbuser = quote(user.value) ]
    IN  IF host.raised THEN InitFailed(s0, t0, "EnvironmentError", issued)
        ELSE IF user.raised THEN InitFailed(s1, t1, "EnvironmentError", issued)
        ELSE LET p == InitPassword(v, s2, t1, tokenOk, issued)
             IN  IF p.ok /\ s2.aad_in_use = StrTrue
                 THEN InitAadBlock(p.obj, p.trace, p.issued)
                 ELSE p

\* __init__ (improved) or init (minimal, rw) as a whole: the attributes it
\* leaves, the calls it made in order, and the exception it raised, if any.
init(v, tokenOk, issued) ==
    LET s0   == [ BlankSelf(v) EXCEPT
                    !.aad_in_use = os_environ_get("AZURE_USE_AAD", AadDefault(v)) ]
        t0   == << "environ:AZURE_USE_AAD", "environ:PGHOST" >>
        host == get_environ_variable("PGHOST")
        user == get_environ_variable("PGUSER")
        s1   == [ s0 EXCEPT !.dbhost = host.value ]
        t1   == t0 \o << "environ:PGUSER" >>
        s2   == [ s1 EXCEPT !.dbuser = quote(user.value) ]
    IN  IF host.raised THEN InitFailed(s0, t0, "EnvironmentError", issued)
        ELSE IF user.raised THEN InitFailed(s1, t1, "EnvironmentError", issued)
        ELSE IF s2.aad_in_use = StrTrue
        THEN LET a == InitAadBlock(s2, t1, issued)
             IN  IF a.ok THEN InitPassword(v, a.obj, a.trace, tokenOk, a.issued)
                 ELSE a
        ELSE InitPassword(v, s2, t1, tokenOk, issued)

----------------------------------------------------------------------------
(* The database engine and the values the tools return *)

Databases == { << "appdb" >> }

Statements == { "SELECT 1",
                "DROP TABLE users",
                "CREATE TABLE users (id int)",
                "INSERT INTO users VALUES (1)",
                "INSERT INTO users VALUES (1) RETURNING id" }

\* str(e) of the exception a failed step raised
ErrMessages == { << >>, << "e" >> }

\* The engine's answer to a caller-supplied statement inside a transaction on
\* database state d: whether it succeeds, the state the transaction then
\* sees, and the result set (hasResult is FALSE for a statement that returns
\* no rows at all, such as DDL or a plain INSERT).
EngineExecute(d, s) ==
    LET err == [ ok |-> FALSE, db |-> d, hasResult |-> FALSE,
                 columns |-> << >>, rows |-> << >> ]
    IN  CASE s = "SELECT 1" ->
               [ ok |-> TRUE, db |-> d, hasResult |-> TRUE,
                 columns |-> << "?column?" >>, rows |-> << "(1,)" >> ]
          [] s = "DROP TABLE users" ->
               IF d.users
               THEN [ ok |-> TRUE, db |-> [ users |-> FALSE, rows |-> 0 ],
                      hasResult |-> FALSE, columns |-> << >>, rows |-> << >> ]
               ELSE err
          [] s = "CREATE TABLE users (id int)" ->
               IF ~d.users
               THEN [ ok |-> TRUE, db |-> [ users |-> TRUE, rows |-> 0 ],
                      hasResult |-> FALSE, columns |-> << >>, rows |-> << >> ]
               ELSE err
          [] s = "INSERT INTO users VALUES (1)" ->
               IF d.users
               THEN [ ok |-> TRUE, db |-> [ d EXCEPT !.rows = @ + 1 ],
                      hasResult |-> FALSE, columns |-> << >>, rows |-> << >> ]
               ELSE err
          [] s = "INSERT INTO users VALUES (1) RETURNING id" ->
               IF d.users
               THEN [ ok |-> TRUE, db |-> [ d EXCEPT !.rows = @ + 1 ],
                      hasResult |-> TRUE, columns |-> << "id" >>,
                      rows |-> << "(1,)" >> ]
               ELSE err
          [] OTHER -> err

\* whether statement s can grow the table beyond the model's bound
WithinRows(d, s) ==
    s \in { "INSERT INTO users VALUES (1)",
            "INSERT INTO users VALUES (1) RETURNING id" } => d.rows < MaxRows

\* "SELECT datname FROM pg_database WHERE datistemplate = false;"
DatabasesResult ==
    [ ok |-> TRUE, hasResult |-> TRUE, columns |-> << "datname" >>,
      rows |-> << "('postgres',)", "('appdb',)" >> ]

\* "SELECT table_name, column_name, data_type FROM information_schema.columns ..."
SchemasResult(d) ==
    [ ok |-> TRUE, hasResult |-> TRUE,
      columns |-> << "table_name", "column_name", "data_type" >>,
      rows |-> IF d.users THEN << "('users', 'id', 'integer')" >> ELSE << >> ]

RECURSIVE Join(_, _)
\* sep.join(parts), sep a str and parts a sequence of atoms
Join(sep, parts) ==
    IF parts = << >> THEN << >>
    ELSE IF Len(parts) = 1 THEN << Head(parts) >>
    ELSE << Head(parts) >> \o sep \o Join(sep, Tail(parts))

RECURSIVE ReprItems(_)
\* the items of str(list): each name in quotes, ", " between them
ReprItems(names) ==
    IF names = << >> THEN << >>
    ELSE << "'", Head(names), "'" >>
         \o (IF Tail(names) = << >> THEN << >> ELSE << ", " >> \o ReprItems(Tail(names)))

\* str(colnames) of a list of column names
StrList(names) == << "[" >> \o ReprItems(names) \o << "]" >>

\* what a tool hands back: a JSON document (json.dumps of an object, kept as
\* the object), the str "", or nothing (None)
Json(o) == [ json |-> TRUE, obj |-> o ]
EmptyString == [ json |-> FALSE, obj |-> [ text |-> << >> ] ]
NoValue == [ json |-> FALSE, obj |-> [ none |-> << >> ] ]

\* json.dumps({"columns": str(colnames), "rows": sep.join(str(row) ...)})
ResultJson(res, sep) ==
    Json([ columns |-> StrList(res.columns), rows |-> Join(sep, res.rows) ])

ReadTools == { "get_databases", "get_schemas", "query_data" }
MutatingTools == { "update_values", "create_table", "drop_table" }
ControlTools == { "get_server_config", "get_server_parameter" }

\* ErrorValue with the bare str(e) as the error text
ErrorValue_bare_message(v, tool, exc, dbname, msg) ==
    IF v = "improved"
    THEN IF tool \in { "get_databases", "get_databases_resource" }
         THEN Json([ error |-> msg,
                     type |-> IF exc = "OperationalError"
                              THEN << "connection_error" >>
                              ELSE << "unexpected_error" >> ])
         ELSE Json([ error |-> msg ])
    ELSE EmptyString

\* ErrorValue with get_databases_internal's envelope lacking its type
ErrorValue_untyped(v, tool, exc, dbname, msg) ==
    IF v = "improved"
    THEN CASE tool \in { "get_databases", "get_databases_resource" } ->
                IF exc = "OperationalError"
                THEN Json([ error |-> << "Database connection failed: " >> \o msg ])
                ELSE Json([ error |-> << "Unexpected database error: " >> \o msg ])
           [] tool = "get_schemas" ->
                Json([ error |-> << "Failed to get schemas for " >> \o dbname
                                    \o << ": " >> \o msg ])
           [] OTHER ->
                Json([ error |-> << "Query failed on " >> \o dbname
                                    \o << ": " >> \o msg ])
    ELSE EmptyString

\* ErrorValue whose get_databases envelope has one type for every failure
ErrorValue_single_kind(v, tool, exc, dbname, msg) ==
    IF v = "improved"
    THEN CASE tool \in { "get_databases", "get_databases_resource" } ->
                Json([ error |-> << "Unexpected database error: " >> \o msg,
                       type |-> << "unexpected_error" >> ])
           [] tool = "get_schemas" ->
                Json([ error |-> << "Failed to get schemas for " >> \o dbname
                                    \o << ": " >> \o msg ])
           [] OTHER ->
                Json([ error |-> << "Query failed on " >> \o dbname
                                    \o << ": " >> \o msg ])
    ELSE EmptyString

\* The value the except clause of a read-path tool returns.
ErrorValue(v, tool, exc, dbname, msg) ==
    IF v = "improved"
    THEN CASE tool \in { "get_databases", "get_databases_resource" } ->
                IF exc = "OperationalError"
                THEN Json([ error |-> << "Database connection failed: " >> \o msg,
                            type |-> << "connection_error" >> ])
                ELSE Json([ error |-> << "Unexpected database error: " >> \o msg,
                            type |-> << "unexpected_error" >> ])
           [] tool = "get_schemas" ->
                Json([ error |-> << "Failed to get schemas for " >> \o dbname
                                    \o << ": " >> \o msg ])
           [] OTHER ->
                Json([ error |-> << "Query failed on " >> \o dbname
                                    \o << ": " >> \o msg ])
    ELSE EmptyString

----------------------------------------------------------------------------
(* The tools *)

\* ConnectionCredential with a token fetched for every connection
ConnectionCredential_refetch(obj, issued) ==
    IF obj.aad_in_use = StrTrue
    THEN [ cred |-> Token(issued + 1), issued |-> issued + 1,
           trace |-> << "get_token" >> ]
    ELSE [ cred |-> obj.password, issued |-> issued, trace |-> << >> ]

\* The credential a tool opens its connection with: the connection string is
\* built from self.password, the value init stored; no tool calls
\* get_password or get_token.
ConnectionCredential(obj, issued) ==
    [ cred |-> obj.password, issued |-> issued, trace |-> << >> ]

\* event e is among the calls of a trace
Occurs(e, trace) == \E i \in 1..Len(trace) : trace[i] = e

\* connect_timeout=15 of the improved copy's psycopg.connect calls
ConnectTimeoutSeconds == 15

\* psycopg.connect without connect_timeout: the driver waits without bound
NoTimeout == 0

\* the connect timeout each copy passes to psycopg.connect in its tools
connect_timeout(v) == IF v = "improved" THEN ConnectTimeoutSeconds ELSE NoTimeout

\* the longest run of asterisks the improved copy prints for a password
MaskCap == 8

Min(a, b) == IF a < b THEN a ELSE b

\* '*' * n
Stars(n) == [ i \in 1..n |-> "*" ]

\* s.startswith(prefix)
StartsWith(s, prefix) ==
    Len(prefix) <= Len(s) /\ SubSeq(s, 1, Len(prefix)) = prefix

RECURSIVE str_replace(_, _, _)
\* s.replace(old, new) for a non-empty old: the occurrences of old, found
\* from the left and not overlapping, become new.  (An empty old is replaced
\* here by an empty new only, which leaves s as it is.)
str_replace(s, old, new) ==
    IF old = << >> \/ s = << >> THEN s
    ELSE IF StartsWith(s, old)
    THEN new \o str_replace(SubSeq(s, Len(old) + 1, Len(s)), old, new)
    ELSE << Head(s) >> \o str_replace(Tail(s), old, new)

\* sub in s
Contains(s, sub) ==
    \E i \in 1..(Len(s) - Len(sub) + 1) : SubSeq(s, i, i + Len(sub) - 1) = sub

\* f"host={self.dbhost} user={self.dbuser} dbname='postgres' password={self.password}"
connection_string(obj) ==
    << "h", "o", "s", "t", "=" >> \o obj.dbhost
    \o << " ", "u", "s", "e", "r", "=" >> \o obj.dbuser
    \o << " ", "d", "b", "n", "a", "m", "e", "=", "'", "p", "o", "s", "t", "g",
          "r", "e", "s", "'" >>
    \o << " ", "p", "a", "s", "s", "w", "o", "r", "d", "=" >> \o obj.password

\* safe_conn_str = connection_string.replace(self.password,
\*                                           '*' * min(len(self.password), 8))
safe_conn_str(obj) ==
    str_replace(connection_string(obj), obj.password,
                Stars(Min(Len(obj.password), MaskCap)))

\* the strings a tool prints that embed the connection string: the improved
\* copy's get_databases_internal prints "Connection: {safe_conn_str}" before
\* it connects
Diagnostics(v, tool, obj) ==
    IF v = "improved" /\ tool \in { "get_databases", "get_databases_resource" }
    THEN << safe_conn_str(obj) >>
    ELSE << >>

\* AttributesAfter with server_name computed on first use
AttributesAfter_lazy_server_name(obj, r) ==
    [ obj EXCEPT !.server_name = ShortName(obj.dbhost) ]

\* self.<attributes> after a tool ran: no tool method assigns an attribute
AttributesAfter(obj, r) == obj

\* What one tool invocation did.
OpResult(outcome, exc, caught, ret, trace, d, c) ==
    [ outcome |-> outcome, exc |-> exc, caught |-> caught, ret |-> ret,
      trace |-> trace, db |-> d, cred |-> c.cred, issued |-> c.issued ]

\* ReadPath that closes the connection only on the path that returns rows
ReadPath_close_on_success(v, tool, obj, d, dbname, conn, res, sep, msg, issued) ==
    LET c  == ConnectionCredential(obj, issued)
        t0 == c.trace \o << "connect" >>
    IN  IF conn # "ok"
        THEN OpResult("returned", "", conn, ErrorValue(v, tool, conn, dbname, msg),
                      t0, d, c)
        ELSE IF ~res.ok
        THEN OpResult("returned", "", "DatabaseError",
                      ErrorValue(v, tool, "DatabaseError", dbname, msg),
                      t0 \o << "execute", "exit:rollback" >>, d, c)
        ELSE IF ~res.hasResult
        THEN OpResult("returned", "", "ProgrammingError",
                      ErrorValue(v, tool, "ProgrammingError", dbname, msg),
                      t0 \o << "execute", "fetchall", "exit:rollback" >>, d, c)
        ELSE OpResult("returned", "", "", ResultJson(res, sep),
                      t0 \o << "execute", "fetchall", "exit:commit", "close" >>,
                      res.db, c)

\* The body shared by get_databases_internal, get_schemas and query_data:
\*     try:
\*         with psycopg.connect(...) as conn:
\*             with conn.cursor() as cur:
\*                 cur.execute(s); cur.fetchall(); return json.dumps(...)
\*     except Exception as e:
\*         return <error value>
\* psycopg 3: the connection block commits when it is left normally and rolls
\* back when it is left by an exception, then closes the connection;
\* fetchall raises ProgrammingError after a statement with no result set.
\* conn: "ok" or the exception class connect raised; res: the engine's answer.
ReadPath(v, tool, obj, d, dbname, conn, res, sep, msg, issued) ==
    LET c  == ConnectionCredential(obj, issued)
        t0 == c.trace \o << "connect" >>
    IN  IF conn # "ok"
        THEN OpResult("returned", "", conn, ErrorValue(v, tool, conn, dbname, msg),
                      t0, d, c)
        ELSE IF ~res.ok
        THEN OpResult("returned", "", "DatabaseError",
                      ErrorValue(v, tool, "DatabaseError", dbname, msg),
                      t0 \o << "execute", "exit:rollback", "close" >>, d, c)
        ELSE IF ~res.hasResult
        THEN OpResult("returned", "", "ProgrammingError",
                      ErrorValue(v, tool, "ProgrammingError", dbname, msg),
                      t0 \o << "execute", "fetchall", "exit:rollback", "close" >>,
                      d, c)
        ELSE OpResult("returned", "", "", ResultJson(res, sep),
                      t0 \o << "execute", "fetchall", "exit:commit", "close" >>,
                      res.db, c)

\* get_databases_internal(): the fixed catalog query; "".join of the rows
get_databases_internal(v, tool, obj, d, conn, execOk, msg, issued) ==
    ReadPath(v, tool, obj, d, << "postgres" >>, conn,
             [ DatabasesResult EXCEPT !.ok = execOk ] @@ [ db |-> d ],
             << >>, msg, issued)

\* get_schemas(database): the fixed information_schema query; "".join
get_schemas(v, obj, d, database, conn, execOk, msg, issued) ==
    ReadPath(v, "get_schemas", obj, d, database, conn,
             [ SchemasResult(d) EXCEPT !.ok = execOk ] @@ [ db |-> d ],
             << >>, msg, issued)

\* query_data that calls fetchall only when the statement has a result set
query_data_skip_fetch(v, obj, d, dbname, s, conn, execOk, msg, issued) ==
    ReadPath(v, "query_data", obj, d, dbname, conn,
             [ EngineExecute(d, s) EXCEPT !.ok = @ /\ execOk, !.hasResult = TRUE ],
             << "," >>, msg, issued)

\* query_data(dbname, s): the caller's statement, executed as given; ",".join
query_data(v, obj, d, dbname, s, conn, execOk, msg, issued) ==
    ReadPath(v, "query_data", obj, d, dbname, conn,
             [ EngineExecute(d, s) EXCEPT !.ok = @ /\ execOk ],
             << "," >>, msg, issued)

\* exec_and_commit without its conn.commit() call
exec_and_commit_no_commit(obj, d, dbname, s, conn, execOk, issued) ==
    LET c   == ConnectionCredential(obj, issued)
        t0  == c.trace \o << "connect" >>
        res == [ EngineExecute(d, s) EXCEPT !.ok = @ /\ execOk ]
    IN  IF conn # "ok"
        THEN OpResult("raised", conn, conn, NoValue, t0, d, c)
        ELSE IF ~res.ok
        THEN OpResult("raised", "DatabaseError", "DatabaseError", NoValue,
                      t0 \o << "execute", "exit:rollback", "close" >>, d, c)
        ELSE OpResult("returned", "", "", NoValue,
                      t0 \o << "execute", "exit:commit", "close" >>, res.db, c)

\* exec_and_commit that connects a second time when the first connect fails
exec_and_commit_retry(obj, d, dbname, s, conn, execOk, issued) ==
    LET c   == ConnectionCredential(obj, issued)
        t0  == c.trace \o << "connect" >>
        res == [ EngineExecute(d, s) EXCEPT !.ok = @ /\ execOk ]
    IN  IF conn # "ok"
        THEN OpResult("raised", conn, conn, NoValue, t0 \o << "connect" >>, d, c)
        ELSE IF ~res.ok
        THEN OpResult("raised", "DatabaseError", "DatabaseError", NoValue,
                      t0 \o << "execute", "exit:rollback", "close" >>, d, c)
        ELSE OpResult("returned", "", "", NoValue,
                      t0 \o << "execute", "conn.commit()", "exit:commit", "close" >>,
                      res.db, c)

\* exec_and_commit(dbname, s) of the read/write copy:
\*     try:
\*         with psycopg.connect(...) as conn:
\*             with conn.cursor() as cur:
\*                 cur.execute(s); conn.commit()
\*     except Exception as e:
\*         raise
exec_and_commit(obj, d, dbname, s, conn, execOk, issued) ==
    LET c   == ConnectionCredential(obj, issued)
        t0  == c.trace \o << "connect" >>
        res == [ EngineExecute(d, s) EXCEPT !.ok = @ /\ execOk ]
    IN  IF conn # "ok"
        THEN OpResult("raised", conn, conn, NoValue, t0, d, c)
        ELSE IF ~res.ok
        THEN OpResult("raised", "DatabaseError", "DatabaseError", NoValue,
                      t0 \o << "execute", "exit:rollback", "close" >>, d, c)
        ELSE OpResult("returned", "", "", NoValue,
                      t0 \o << "execute", "conn.commit()", "exit:commit", "close" >>,
                      res.db, c)

\* The capability check of get_server_config and get_server_parameter: the
\* improved copy compares with "True", the other two test the truth value of
\* the string.
CapabilityCheck(v, obj) ==
    IF v = "improved" THEN obj.aad_in_use = StrTrue ELSE Truthy(obj.aad_in_use)

\* ControlPlaneTool that answers a control-plane failure with an error value
ControlPlaneTool_enveloped(v, tool, obj, d, cp, issued) ==
    LET c == [ cred |-> None, issued |-> issued ]
        call == IF tool = "get_server_config" THEN "servers.get"
                ELSE "configurations.get"
    IN  IF ~CapabilityCheck(v, obj)
        THEN OpResult("raised", "NotImplementedError", "", NoValue, << >>, d, c)
        ELSE IF obj.postgresql_client \in { NoAttr, None }
        THEN OpResult("raised", "AttributeError", "AttributeError", NoValue,
                      << "self.postgresql_client" >>, d, c)
        ELSE IF cp # "ok"
        THEN OpResult("returned", "", cp, Json([ error |-> << cp >> ]),
                      << "self.postgresql_client", call >>, d, c)
        ELSE OpResult("returned", "", "",
                      IF tool = "get_server_config"
                      THEN Json([ server |-> << "name", "location", "version", "sku",
                                                "storage_profile" >> ])
                      ELSE Json([ param |-> << "name" >>, value |-> << "value" >> ]),
                      << "self.postgresql_client", call >>, d, c)

\* get_server_config() and get_server_parameter(name): one control-plane call
\* through self.postgresql_client; every exception is logged and raised again.
\* cp: "ok" or the exception class the control plane raised.
ControlPlaneTool(v, tool, obj, d, cp, issued) ==
    LET c == [ cred |-> None, issued |-> issued ]
        call == IF tool = "get_server_config" THEN "servers.get"
                ELSE "configurations.get"
    IN  IF ~CapabilityCheck(v, obj)
        THEN OpResult("raised", "NotImplementedError", "", NoValue, << >>, d, c)
        ELSE IF obj.postgresql_client \in { NoAttr, None }
        THEN OpResult("raised", "AttributeError", "AttributeError", NoValue,
                      << "self.postgresql_client" >>, d, c)
        ELSE IF cp # "ok"
        THEN OpResult("raised", cp, cp, NoValue,
                      << "self.postgresql_client", call >>, d, c)
        ELSE OpResult("returned", "", "",
                      IF tool = "get_server_config"
                      THEN Json([ server |-> << "name", "location", "version", "sku",
                                                "storage_profile" >> ])
                      ELSE Json([ param |-> << "name" >>, value |-> << "value" >> ]),
                      << "self.postgresql_client", call >>, d, c)

----------------------------------------------------------------------------
(* main.py: the startup connection test *)

ConnectionAttempts == << "SSL Required", "SSL Preferred", "Basic Connection" >>

ConnectOutcomes == { "ok", "OperationalError", "Exception" }

\* MissingVars that counts only unset variables
MissingVars_unset_only ==
    { n \in { "PGHOST", "PGUSER", "PGPASSWORD" } : environ[n] = None }

\* the variables test_database_connection reports as missing: "if not host",
\* "if not user_raw", "if not password"
MissingVars ==
    { n \in { "PGHOST", "PGUSER", "PGPASSWORD" } : ~Truthy(environ[n]) }

RECURSIVE TryAttempts(_, _)
\* the for loop over connection_attempts from attempt i on: every failure is
\* caught and the next method is tried, the first success returns True
TryAttempts(i, outcomes) ==
    IF i > Len(ConnectionAttempts) THEN [ result |-> FALSE, log |-> << >> ]
    ELSE IF outcomes[i] = "ok"
    THEN [ result |-> TRUE, log |-> << << ConnectionAttempts[i], "ok" >> >> ]
    ELSE LET rest == TryAttempts(i + 1, outcomes)
         IN  [ result |-> rest.result,
               log |-> << << ConnectionAttempts[i], outcomes[i] >> >> \o rest.log ]

\* test_database_connection(): False at once when a variable is missing
test_database_connection(outcomes) ==
    IF MissingVars # { } THEN [ result |-> FALSE, log |-> << >> ]
    ELSE TryAttempts(1, outcomes)

----------------------------------------------------------------------------
(* State *)

InitialDb == [ users |-> TRUE, rows |-> 0 ]

NoOp ==
    [ tool |-> "none", dbname |-> << >>, stmt |-> "", outcome |-> "none",
      exc |-> "", caught |-> "", ret |-> NoValue, trace |-> << >>,
      cred |-> None, dbBefore |-> InitialDb, timeout |-> NoTimeout,
      printed |-> << >> ]

NoInit == [ ok |-> FALSE, exc |-> "", trace |-> << >> ]

\* a host thread that runs no tool
Idle ==
    [ pc |-> "idle", tool |-> "none", dbname |-> << >>, stmt |-> "",
      conn |-> 0, connOutcome |-> "", execOk |-> TRUE, res |-> << >>,
      caught |-> "", trace |-> << >>, outcome |-> "none", exc |-> "",
      ret |-> NoValue, seen |-> InitialDb, wrote |-> InitialDb ]

\* the copies of the class and the ways each is started
Launches == << << "improved", "main" >>, << "improved", "direct" >>,
              << "minimal", "direct" >>, << "rw", "rwmain" >> >>

\* os.environ when the process starts: choice[n] picks the value of variable n
Environment(choice) == [ n \in EnvNames |-> EnvValues(n)[choice[n]] ]

\* the variables in which an environment differs from a complete
\* configuration of its mode (every variable set to its first value): the
\* variables other than AZURE_USE_AAD that are unset or empty, and
\* AZURE_USE_AAD itself when it is unset
Deviations(choice) ==
    Cardinality({ n \in EnvNames \ { "AZURE_USE_AAD" } : choice[n] # 1 })
    + (IF EnvValues("AZURE_USE_AAD")[choice["AZURE_USE_AAD"]] = None THEN 1 ELSE 0)

Init ==
    /\ \E k \in DOMAIN Launches :
          /\ variant = Launches[k][1]
          /\ launch = Launches[k][2]
          /\ pc = CASE launch = "main" -> "test"
                    [] launch = "rwmain" -> "create_mcp"
                    [] OTHER -> "construct"
    /\ \E h \in DOMAIN EnvValues("PGHOST"), u \in DOMAIN EnvValues("PGUSER"),
          p \in DOMAIN EnvValues("PGPASSWORD"), a \in DOMAIN EnvValues("AZURE_USE_AAD"),
          i \in DOMAIN EnvValues("AZURE_SUBSCRIPTION_ID"),
          g \in DOMAIN EnvValues("AZURE_RESOURCE_GROUP") :
          LET choice == [ PGHOST |-> h, PGUSER |-> u, PGPASSWORD |-> p,
                          AZURE_USE_AAD |-> a, AZURE_SUBSCRIPTION_ID |-> i,
                          AZURE_RESOURCE_GROUP |-> g ]
          IN  /\ Deviations(choice) <= MaxDeviations
              /\ environ = Environment(choice)
    /\ waited = 0
    /\ testResult = FALSE
    /\ testLog = << >>
    /\ exitStatus = << >>
    /\ interrupted = FALSE
    /\ startupFailure = ""
    /\ registered = << >>
    /\ resources = { }
    /\ ran = FALSE
    /\ self = BlankSelf(variant)
    /\ constructed = "no"
    /\ initOp = NoInit
    /\ idp = 0
    /\ db = InitialDb
    /\ calls = 0
    /\ lastOp = NoOp
    /\ threads = [ t \in 1..NumThreads |-> Idle ]
    /\ connections = << >>

\* sys.exit(status)
Exit(status, failure) ==
    /\ pc' = "exited"
    /\ exitStatus' = << status >>
    /\ startupFailure' = failure

\* self.<attributes> and the construction record after init ran
Constructing(r) ==
    /\ self' = r.obj
    /\ initOp' = [ ok |-> r.ok, exc |-> r.exc, trace |-> r.trace ]
    /\ idp' = r.issued
    /\ constructed' = IF r.ok THEN "ok" ELSE "failed"

----------------------------------------------------------------------------
(* main.py: main() *)

\* seconds of the debugging wait after a failed connection test
WaitSeconds == 120

\* AfterConnectionTest with the result of the test ignored
AfterConnectionTest_ignored(result) == "import_mcp"

\* where main() goes after "if not test_database_connection():"
AfterConnectionTest(result) == IF result THEN "import_mcp" ELSE "wait"

MainTestConnection ==
    /\ launch = "main" /\ pc = "test"
    /\ \E outcomes \in [ 1..Len(ConnectionAttempts) -> ConnectOutcomes ] :
          LET t == test_database_connection(outcomes)
          IN  /\ testResult' = t.result
              /\ testLog' = t.log
              /\ pc' = AfterConnectionTest(t.result)
              /\ startupFailure' = IF t.result THEN "" ELSE "connection_test"
    /\ UNCHANGED << threads, connections, variant, launch, environ, waited, exitStatus, interrupted,
                    registered, resources, ran, self, constructed, initOp, idp,
                    db, calls, lastOp >>

\* one iteration of "for i in range(120): time.sleep(1)"
MainWaitStep ==
    /\ launch = "main" /\ pc = "wait" /\ waited < WaitSeconds
    /\ waited' = waited + 1
    /\ UNCHANGED << threads, connections, variant, launch, environ, pc, testResult, testLog, exitStatus,
                    interrupted, startupFailure, registered, resources, ran, self,
                    constructed, initOp, idp, db, calls, lastOp >>

\* MainWaitExit whose SystemExit is caught by main's "except Exception"
MainWaitExit_intercepted ==
    /\ launch = "main" /\ pc = "wait" /\ waited = WaitSeconds
    /\ pc' = "fatal_sleep"
    /\ startupFailure' = "fatal"
    /\ UNCHANGED << threads, connections, variant, launch, environ, waited, testResult, testLog,
                    exitStatus, interrupted, registered, resources, ran, self,
                    constructed, initOp, idp, db, calls, lastOp >>

\* sys.exit(1) after the wait; SystemExit is no Exception, so main's handlers
\* let it through
MainWaitExit ==
    /\ launch = "main" /\ pc = "wait" /\ waited = WaitSeconds
    /\ Exit(1, "connection_test")
    /\ UNCHANGED << threads, connections, variant, launch, environ, waited, testResult, testLog,
                    interrupted, registered, resources, ran, self, constructed,
                    initOp, idp, db, calls, lastOp >>

\* an import of main(): ImportError exits with 1, any other exception goes to
\* the outer handler
MainImport(at, next) ==
    /\ launch = "main" /\ pc = at
    /\ \E outcome \in { "ok", "ImportError", "Exception" } :
          CASE outcome = "ok" ->
                 pc' = next /\ UNCHANGED << exitStatus, startupFailure >>
            [] outcome = "ImportError" -> Exit(1, "import")
            [] OTHER ->
                 /\ pc' = "fatal_sleep" /\ startupFailure' = "fatal"
                 /\ UNCHANGED exitStatus
    /\ UNCHANGED << threads, connections, variant, launch, environ, waited, testResult, testLog,
                    interrupted, registered, resources, ran, self, constructed,
                    initOp, idp, db, calls, lastOp >>

\* from mcp.server import FastMCP
MainImportFastMCP == MainImport("import_mcp", "import_adapter")

\* from .AzurePostgresMCP import AzurePostgreSQLMCP
MainImportAdapter == MainImport("import_adapter", "create_mcp")

\* mcp = FastMCP("Azure PostgreSQL MCP Server"): an exception goes to the
\* outer handler
MainCreateServer ==
    /\ launch = "main" /\ pc = "create_mcp"
    /\ \E ok \in BOOLEAN :
          IF ok THEN pc' = "construct" /\ UNCHANGED startupFailure
          ELSE pc' = "fatal_sleep" /\ startupFailure' = "fatal"
    /\ UNCHANGED << threads, connections, variant, launch, environ, waited, testResult, testLog,
                    exitStatus, interrupted, registered, resources, ran, self,
                    constructed, initOp, idp, db, calls, lastOp >>

\* azure_pg_mcp = AzurePostgreSQLMCP(); any exception exits with 1
MainConstruct ==
    /\ launch = "main" /\ pc = "construct"
    /\ \E tokenOk \in BOOLEAN :
          LET r == init(variant, tokenOk, idp)
          IN  /\ Constructing(r)
              /\ IF r.ok THEN pc' = "add_tools" /\ UNCHANGED << exitStatus, startupFailure >>
                 ELSE Exit(1, "construction")
    /\ UNCHANGED << threads, connections, variant, launch, environ, waited, testResult, testLog,
                    interrupted, registered, resources, ran, db, calls, lastOp >>

\* main() registering update_values as well
MainTools_with_update_values ==
    << "get_databases", "get_schemas", "query_data", "update_values",
       "get_server_config", "get_server_parameter" >>

\* the tools main() registers, in order
MainTools == << "get_databases", "get_schemas", "query_data",
                "get_server_config", "get_server_parameter" >>

\* the mcp.add_tool calls of one entry point: failAt = 0 when none raises,
\* otherwise the call that raises (those before it are registered)
AddTools(tools, failAt) ==
    /\ registered' = IF failAt = 0 THEN tools ELSE SubSeq(tools, 1, failAt - 1)
    /\ IF failAt = 0
       THEN pc' = (IF launch = "main" THEN "run" ELSE "add_resource")
            /\ UNCHANGED << exitStatus, startupFailure >>
       ELSE Exit(1, "tool_registration")

MainAddTools ==
    /\ launch = "main" /\ pc = "add_tools"
    /\ \E failAt \in 0..Len(MainTools) : AddTools(MainTools, failAt)
    /\ UNCHANGED << threads, connections, variant, launch, environ, waited, testResult, testLog,
                    interrupted, resources, ran, self, constructed, initOp, idp,
                    db, calls, lastOp >>

\* mcp.run()
RunServer ==
    /\ pc' = "serving"
    /\ ran' = TRUE

MainRun ==
    /\ launch = "main" /\ pc = "run"
    /\ RunServer
    /\ UNCHANGED << threads, connections, variant, launch, environ, waited, testResult, testLog,
                    exitStatus, interrupted, startupFailure, registered, resources,
                    self, constructed, initOp, idp, db, calls, lastOp >>

\* the outer "except Exception": time.sleep(300); sys.exit(1)
MainFatalSleep ==
    /\ launch = "main" /\ pc = "fatal_sleep"
    /\ Exit(1, "fatal")
    /\ UNCHANGED << threads, connections, variant, launch, environ, waited, testResult, testLog,
                    interrupted, registered, resources, ran, self, constructed,
                    initOp, idp, db, calls, lastOp >>

\* the positions inside main()'s try block
MainTryBlock == { "test", "wait", "import_mcp", "import_adapter", "create_mcp",
                  "construct", "add_tools", "run", "serving" }

\* "except KeyboardInterrupt: sys.exit(0)"
KeyboardInterrupt ==
    /\ launch = "main" /\ pc \in MainTryBlock
    /\ pc' = "exited"
    /\ exitStatus' = << 0 >>
    /\ interrupted' = TRUE
    /\ UNCHANGED << threads, connections, variant, launch, environ, waited, testResult, testLog,
                    startupFailure, registered, resources, ran, self, constructed,
                    initOp, idp, db, calls, lastOp >>

\* a KeyboardInterrupt during the handler's sleep is caught by nobody: the
\* interpreter ends with status 1, or 130 where it re-raises the signal
KeyboardInterruptInHandler ==
    /\ launch = "main" /\ pc = "fatal_sleep"
    /\ pc' = "exited"
    /\ \E status \in { 1, 130 } : exitStatus' = << status >>
    /\ interrupted' = TRUE
    /\ UNCHANGED << threads, connections, variant, launch, environ, waited, testResult, testLog,
                    startupFailure, registered, resources, ran, self, constructed,
                    initOp, idp, db, calls, lastOp >>

----------------------------------------------------------------------------
(* azure_postgres_mcp.py: the __main__ block; every exception exits with 1 *)

RwTools == << "get_databases", "get_schemas", "query_data", "update_values",
              "create_table", "drop_table", "get_server_config",
              "get_server_parameter" >>

\* get_dbs_resource_uri that keeps the whole host name
get_dbs_resource_uri_full_host(obj) ==
    << "flexpg://" >> \o obj.dbhost \o << "/databases" >>

\* get_dbs_resource_uri()
get_dbs_resource_uri(obj) ==
    << "flexpg://" >> \o ShortName(obj.dbhost) \o << "/databases" >>

\* mcp = FastMCP("Flex PG Explorer")
RwCreateServer ==
    /\ launch = "rwmain" /\ pc = "create_mcp"
    /\ \E ok \in BOOLEAN :
          IF ok THEN pc' = "construct" /\ UNCHANGED << exitStatus, startupFailure >>
          ELSE Exit(1, "server_creation")
    /\ UNCHANGED << threads, connections, variant, launch, environ, waited, testResult, testLog,
                    interrupted, registered, resources, ran, self, constructed,
                    initOp, idp, db, calls, lastOp >>

\* azure_pg_mcp = AzurePostgreSQLMCP(); azure_pg_mcp.init()
RwConstruct ==
    /\ launch = "rwmain" /\ pc = "construct"
    /\ \E tokenOk \in BOOLEAN :
          LET r == init(variant, tokenOk, idp)
          IN  /\ Constructing(r)
              /\ IF r.ok THEN pc' = "add_tools" /\ UNCHANGED << exitStatus, startupFailure >>
                 ELSE Exit(1, "construction")
    /\ UNCHANGED << threads, connections, variant, launch, environ, waited, testResult, testLog,
                    interrupted, registered, resources, ran, db, calls, lastOp >>

RwAddTools ==
    /\ launch = "rwmain" /\ pc = "add_tools"
    /\ \E failAt \in 0..Len(RwTools) : AddTools(RwTools, failAt)
    /\ UNCHANGED << threads, connections, variant, launch, environ, waited, testResult, testLog,
                    interrupted, resources, ran, self, constructed, initOp, idp,
                    db, calls, lastOp >>

\* mcp.add_resource(FunctionResource(uri=azure_pg_mcp.get_dbs_resource_uri(), ...))
RwAddResource ==
    /\ launch = "rwmain" /\ pc = "add_resource"
    /\ \E ok \in BOOLEAN :
          IF ok
          THEN /\ resources' = resources \cup { get_dbs_resource_uri(self) }
               /\ pc' = "run"
               /\ UNCHANGED << exitStatus, startupFailure >>
          ELSE Exit(1, "resource_registration") /\ UNCHANGED resources
    /\ UNCHANGED << threads, connections, variant, launch, environ, waited, testResult, testLog,
                    interrupted, registered, ran, self, constructed, initOp, idp,
                    db, calls, lastOp >>

RwRun ==
    /\ launch = "rwmain" /\ pc = "run"
    /\ RunServer
    /\ UNCHANGED << threads, connections, variant, launch, environ, waited, testResult, testLog,
                    exitStatus, interrupted, startupFailure, registered, resources,
                    self, constructed, initOp, idp, db, calls, lastOp >>

----------------------------------------------------------------------------
(* The class used without an entry point: the caller constructs the adapter *)

DirectConstruct ==
    /\ launch = "direct" /\ pc = "construct"
    /\ \E tokenOk \in BOOLEAN :
          LET r == init(variant, tokenOk, idp)
          IN  /\ Constructing(r)
              /\ pc' = IF r.ok THEN "ready" ELSE "failed"
    /\ UNCHANGED << threads, connections, variant, launch, environ, waited, testResult, testLog,
                    exitStatus, interrupted, startupFailure, registered, resources,
                    ran, db, calls, lastOp >>

----------------------------------------------------------------------------
(* Tool invocations *)

Range(f) == { f[i] : i \in DOMAIN f }

\* the host can call a tool once the server runs and the tool is registered;
\* a direct caller can call every method of the constructed object
CanInvoke(tool) ==
    /\ constructed = "ok"
    /\ calls < MaxCalls
    /\ \/ launch = "direct" /\ pc = "ready"
       \/ launch # "direct" /\ pc = "serving" /\ tool \in Range(registered)

CanReadResource ==
    /\ constructed = "ok"
    /\ calls < MaxCalls
    /\ \/ launch = "direct" /\ pc = "ready"
       \/ launch # "direct" /\ pc = "serving" /\ resources # { }

Invoke(tool, dbname, stmt, r) ==
    /\ lastOp' = [ tool |-> tool, dbname |-> dbname, stmt |-> stmt,
                   outcome |-> r.outcome, exc |-> r.exc, caught |-> r.caught,
                   ret |-> r.ret, trace |-> r.trace, cred |-> r.cred,
                   dbBefore |-> db,
                   timeout |-> IF Occurs("connect", r.trace)
                               THEN connect_timeout(variant) ELSE NoTimeout,
                   printed |-> Diagnostics(variant, tool, self) ]
    /\ db' = r.db
    /\ idp' = r.issued
    /\ calls' = calls + 1
    /\ self' = AttributesAfter(self, r)
    /\ UNCHANGED << threads, connections, variant, launch, environ, pc, waited, testResult, testLog,
                    exitStatus, interrupted, startupFailure, registered, resources,
                    ran, constructed, initOp >>

\* What the network and the engine do to one invocation: the connection
\* fails (conn names the exception), or it is made and the statement fails
\* (execOk = FALSE), or both succeed; msg is str(e) of the exception raised.
\* fetchFails: the invocation may also fail after a successful execute.
Scenarios(fetchFails) ==
    { [ conn |-> "ok", execOk |-> TRUE, msg |-> m ] :
        m \in IF fetchFails THEN ErrMessages ELSE { << >> } }
    \cup { [ conn |-> "ok", execOk |-> FALSE, msg |-> m ] : m \in ErrMessages }
    \cup { [ conn |-> c, execOk |-> TRUE, msg |-> m ] :
             c \in ConnectOutcomes \ { "ok" }, m \in ErrMessages }

GetDatabases ==
    /\ CanInvoke("get_databases")
    /\ \E e \in Scenarios(FALSE) :
          Invoke("get_databases", << >>, "",
                 get_databases_internal(variant, "get_databases", self, db, e.conn,
                                        e.execOk, e.msg, idp))

GetDatabasesResource ==
    /\ CanReadResource
    /\ \E e \in Scenarios(FALSE) :
          Invoke("get_databases_resource", << >>, "",
                 get_databases_internal(variant, "get_databases_resource", self, db,
                                        e.conn, e.execOk, e.msg, idp))

GetSchemas ==
    /\ CanInvoke("get_schemas")
    /\ \E database \in Databases, e \in Scenarios(FALSE) :
          Invoke("get_schemas", database, "",
                 get_schemas(variant, self, db, database, e.conn, e.execOk, e.msg,
                             idp))

QueryData ==
    /\ CanInvoke("query_data")
    /\ \E dbname \in Databases, s \in Statements, e \in Scenarios(TRUE) :
          /\ WithinRows(db, s)
          /\ Invoke("query_data", dbname, s,
                    query_data(variant, self, db, dbname, s, e.conn, e.execOk,
                               e.msg, idp))

\* update_values, create_table and drop_table: each only calls exec_and_commit
Mutate(tool) ==
    /\ variant = "rw"
    /\ CanInvoke(tool)
    /\ \E dbname \in Databases, s \in Statements, conn \in ConnectOutcomes,
          execOk \in BOOLEAN :
          /\ WithinRows(db, s)
          /\ conn # "ok" => execOk
          /\ Invoke(tool, dbname, s,
                    exec_and_commit(self, db, dbname, s, conn, execOk, idp))

UpdateValues == Mutate("update_values")

CreateTable == Mutate("create_table")

DropTable == Mutate("drop_table")

ControlPlaneOutcomes == { "ok", "HttpResponseError" }

GetServerConfig ==
    /\ CanInvoke("get_server_config")
    /\ \E cp \in ControlPlaneOutcomes :
          Invoke("get_server_config", << >>, "",
                 ControlPlaneTool(variant, "get_server_config", self, db, cp, idp))

GetServerParameter ==
    /\ CanInvoke("get_server_parameter")
    /\ \E cp \in ControlPlaneOutcomes :
          Invoke("get_server_parameter", << >>, "",
                 ControlPlaneTool(variant, "get_server_parameter", self, db, cp, idp))

----------------------------------------------------------------------------

Next ==
    \/ MainTestConnection
    \/ MainWaitStep
    \/ MainWaitExit
    \/ MainImportFastMCP
    \/ MainImportAdapter
    \/ MainCreateServer
    \/ MainConstruct
    \/ MainAddTools
    \/ MainRun
    \/ MainFatalSleep
    \/ KeyboardInterrupt
    \/ KeyboardInterruptInHandler
    \/ RwCreateServer
    \/ RwConstruct
    \/ RwAddTools
    \/ RwAddResource
    \/ RwRun
    \/ DirectConstruct
    \/ GetDatabases
    \/ GetDatabasesResource
    \/ GetSchemas
    \/ QueryData
    \/ UpdateValues
    \/ CreateTable
    \/ DropTable
    \/ GetServerConfig
    \/ GetServerParameter

Spec == Init /\ [][Next]_vars


\* the process started from main.py alone
MainInit == Init /\ launch = "main"

MainNext ==
    \/ MainTestConnection
    \/ MainWaitStep
    \/ MainWaitExit
    \/ MainImportFastMCP
    \/ MainImportAdapter
    \/ MainCreateServer
    \/ MainConstruct
    \/ MainAddTools
    \/ MainRun
    \/ MainFatalSleep
    \/ KeyboardInterrupt
    \/ KeyboardInterruptInHandler
    \/ GetDatabases
    \/ GetSchemas
    \/ QueryData
    \/ GetServerConfig
    \/ GetServerParameter

\* the scheduling of main(): the for loop of the wait and the sys.exit(1)
\* after it run on unless the process is interrupted
MainFairSpec ==
    MainInit /\ [][MainNext]_vars /\ WF_vars(MainWaitStep) /\ WF_vars(MainWaitExit)

----------------------------------------------------------------------------
(* Tool invocations running side by side on one adapter.  The host may call
   tool methods from several threads; each method works on its own local
   variables (conn, cur, rows) and reads the attributes of self.  An
   invocation is split at its calls into the driver: connect, execute,
   fetchall or conn.commit(), and the exit of the connection block. *)

\* the variables no step of a running invocation changes
AdapterVars == << variant, launch, environ, pc, waited, testResult, testLog,
                 exitStatus, interrupted, startupFailure, registered, resources,
                 ran, self, constructed, initOp, idp, calls, lastOp >>

\* statements the concurrent callers submit through each tool
ConcStatements(tool) ==
    CASE tool = "get_schemas" -> { "" }
      [] tool = "query_data" -> { "SELECT 1", "DROP TABLE users",
                                  "INSERT INTO users VALUES (1) RETURNING id" }
      [] OTHER -> { "DROP TABLE users" }

\* str(e) of the exceptions raised in these runs
ConcMessage == << "e" >>

\* the tools the concurrent callers invoke
ConcTools(v) ==
    { "get_schemas", "query_data" }
    \cup (IF v = "rw" THEN { "update_values" } ELSE { })

\* the statement changes the table, so the engine makes it wait for the
\* other transactions that changed it
Writes(s) == s \in Statements \ { "SELECT 1" }

\* the separator each read tool joins its rows with
RowSeparator(tool) == IF tool = "query_data" THEN << "," >> ELSE << >>

\* ConnectionUsed with the connection kept in an attribute of the adapter,
\* where the latest connect overwrites it
ConnectionUsed_shared(t) == Len(connections)

\* the connection a running invocation works on: its local variable conn,
\* bound by "with psycopg.connect(...) as conn"
ConnectionUsed(t) == threads[t].conn

\* the outcome of an invocation that is over: the return statement of the
\* try block, or the except clause (error value in the read tools, raise in
\* exec_and_commit)
Finish(th) ==
    IF th.caught = ""
    THEN [ th EXCEPT !.pc = "done", !.outcome = "returned",
                     !.ret = IF th.tool \in MutatingTools THEN NoValue
                             ELSE ResultJson(th.res, RowSeparator(th.tool)) ]
    ELSE IF th.tool \in MutatingTools
    THEN [ th EXCEPT !.pc = "done", !.outcome = "raised", !.exc = th.caught ]
    ELSE [ th EXCEPT !.pc = "done", !.outcome = "returned",
                     !.ret = ErrorValue(variant, th.tool, th.caught, th.dbname,
                                        ConcMessage) ]

ConcInit ==
    /\ variant \in { "improved", "minimal", "rw" }
    /\ launch = "direct"
    /\ pc = "ready"
    /\ \E a \in { 1, 2 } :
          environ = Environment([ PGHOST |-> 1, PGUSER |-> 1, PGPASSWORD |-> 1,
                                  AZURE_USE_AAD |-> a, AZURE_SUBSCRIPTION_ID |-> 1,
                                  AZURE_RESOURCE_GROUP |-> 1 ])
    /\ LET r == init(variant, TRUE, 0)
       IN  /\ self = r.obj
           /\ initOp = [ ok |-> r.ok, exc |-> r.exc, trace |-> r.trace ]
           /\ idp = r.issued
    /\ constructed = "ok"
    /\ waited = 0
    /\ testResult = FALSE
    /\ testLog = << >>
    /\ exitStatus = << >>
    /\ interrupted = FALSE
    /\ startupFailure = ""
    /\ registered = << >>
    /\ resources = { }
    /\ ran = FALSE
    /\ db = InitialDb
    /\ calls = 0
    /\ lastOp = NoOp
    /\ threads = [ t \in 1..NumThreads |-> Idle ]
    /\ connections = << >>

\* the host calls a tool on a free thread
ConcCall ==
    \E t \in 1..NumThreads :
       /\ threads[t].pc = "idle"
       /\ \E tool \in ConcTools(variant), dbname \in Databases :
             \E s \in ConcStatements(tool) :
                threads' = [ threads EXCEPT ![t] =
                               [ Idle EXCEPT !.pc = "connect", !.tool = tool,
                                             !.dbname = dbname, !.stmt = s ] ]
       /\ UNCHANGED << connections, db, AdapterVars >>

\* psycopg.connect(self.get_connection_uri(dbname)): a new connection bound
\* to the local conn, or an exception that the except clause handles
ConcConnect ==
    \E t \in 1..NumThreads :
       /\ threads[t].pc = "connect"
       /\ \E o \in { "ok", "OperationalError" } :
             LET th == threads[t]
                 c  == ConnectionCredential(self, idp)
                 t0 == c.trace \o << "connect" >>
             IN  IF o = "ok"
                 THEN /\ connections' =
                            Append(connections,
                                   [ owner |-> t, open |-> TRUE, locked |-> FALSE,
                                     pending |-> db, cred |-> c.cred ])
                      /\ threads' = [ threads EXCEPT ![t] =
                            [ th EXCEPT !.pc = "execute", !.connOutcome = "ok",
                                        !.conn = Len(connections) + 1,
                                        !.trace = t0 ] ]
                 ELSE /\ UNCHANGED connections
                      /\ threads' = [ threads EXCEPT ![t] =
                            Finish([ th EXCEPT !.connOutcome = o, !.caught = o,
                                               !.trace = t0, !.seen = db,
                                               !.wrote = db ]) ]
       /\ UNCHANGED << db, AdapterVars >>

\* cur.execute(...) on the invocation's connection: the statement sees the
\* committed database; a statement that changes the table waits while
\* another open transaction has changed it
ConcExecute ==
    \E t \in 1..NumThreads :
       /\ threads[t].pc = "execute"
       /\ LET th == threads[t]
              c  == ConnectionUsed(t)
          IN  /\ Writes(th.stmt)
                    => \A k \in DOMAIN connections :
                          k # c => ~connections[k].locked
              /\ \E execOk \in BOOLEAN :
                    LET r == IF th.tool = "get_schemas"
                             THEN [ SchemasResult(db) EXCEPT !.ok = execOk ]
                                  @@ [ db |-> db ]
                             ELSE [ EngineExecute(db, th.stmt) EXCEPT
                                      !.ok = @ /\ execOk ]
                        ran1 == [ th EXCEPT !.execOk = execOk, !.res = r,
                                            !.seen = db, !.wrote = db,
                                            !.trace = @ \o << "execute" >> ]
                    IN  IF r.ok
                        THEN /\ connections' =
                                   [ connections EXCEPT
                                       ![c].pending = r.db,
                                       ![c].locked = Writes(th.stmt) ]
                             /\ threads' = [ threads EXCEPT ![t] =
                                   [ ran1 EXCEPT !.pc =
                                       IF th.tool \in MutatingTools
                                       THEN "commit" ELSE "fetchall" ] ]
                        ELSE /\ UNCHANGED connections
                             /\ threads' = [ threads EXCEPT ![t] =
                                   [ ran1 EXCEPT !.pc = "exit",
                                                 !.caught = "DatabaseError" ] ]
       /\ UNCHANGED << db, AdapterVars >>

\* cur.fetchall() of the read tools: raises after a statement that has no
\* result set
ConcFetchAll ==
    \E t \in 1..NumThreads :
       /\ threads[t].pc = "fetchall"
       /\ LET th == threads[t]
          IN  threads' = [ threads EXCEPT ![t] =
                 [ th EXCEPT !.pc = "exit",
                             !.trace = @ \o << "fetchall" >>,
                             !.caught = IF th.res.hasResult THEN ""
                                        ELSE "ProgrammingError" ] ]
       /\ UNCHANGED << connections, db, AdapterVars >>

\* conn.commit() of exec_and_commit
ConcCommit ==
    \E t \in 1..NumThreads :
       /\ threads[t].pc = "commit"
       /\ LET th == threads[t]
              c  == ConnectionUsed(t)
          IN  /\ db' = connections[c].pending
              /\ connections' = [ connections EXCEPT ![c].locked = FALSE ]
              /\ threads' = [ threads EXCEPT ![t] =
                    [ th EXCEPT !.pc = "exit",
                                !.wrote = connections[c].pending,
                                !.trace = @ \o << "conn.commit()" >> ] ]
       /\ UNCHANGED AdapterVars

\* leaving "with psycopg.connect(...) as conn": commit when the block ends
\* normally, rollback when an exception leaves it, then close; after it the
\* method returns or its except clause runs
ConcExit ==
    \E t \in 1..NumThreads :
       /\ threads[t].pc = "exit"
       /\ LET th == threads[t]
              c  == ConnectionUsed(t)
              commits == th.caught = "" /\ connections[c].locked
          IN  /\ db' = IF commits THEN connections[c].pending ELSE db
              /\ connections' = [ connections EXCEPT ![c].open = FALSE,
                                                     ![c].locked = FALSE ]
              /\ threads' = [ threads EXCEPT ![t] =
                    Finish([ th EXCEPT
                               !.wrote = IF commits THEN connections[c].pending
                                         ELSE IF th.caught # "" THEN th.seen
                                         ELSE th.wrote,
                               !.trace = @ \o (IF th.caught = ""
                                               THEN << "exit:commit", "close" >>
                                               ELSE << "exit:rollback", "close" >>) ]) ]
       /\ UNCHANGED AdapterVars

ConcNext ==
    \/ ConcCall
    \/ ConcConnect
    \/ ConcExecute
    \/ ConcFetchAll
    \/ ConcCommit
    \/ ConcExit

ConcSpec == ConcInit /\ [][ConcNext]_vars

----------------------------------------------------------------------------
(* test_database_connection() of main.py, db_utils.py and test.py, run on
   its own, one loop iteration at a time *)

\* the files that define test_database_connection
TestScripts == { "main.py", "db_utils.py", "test.py" }

\* connection_attempts (main.py, db_utils.py) and connection_strings
\* (test.py), in the order of the list
ConnectionMethods(script) ==
    IF script = "test.py"
    THEN << "Basic Connection", "SSL Required", "SSL Preferred", "URI",
            "URI SSL Required" >>
    ELSE ConnectionAttempts

\* what one attempt can do: connect and answer the test query, or raise
TestOutcomes == ConnectOutcomes \cup { "DatabaseError" }

\* the except clauses of the loop body with no clause for an unexpected error
AttemptFailed_unexpected_escapes(script, exc) ==
    IF exc = "Exception" THEN "raise" ELSE "continue"

\* the except clauses of the loop body: OperationalError, (test.py)
\* DatabaseError and Exception are all caught and the loop goes on
AttemptFailed(script, exc) == "continue"

\* the variables a test run leaves alone
TestFixedVars == << variant, launch, environ, waited, exitStatus, interrupted,
                    startupFailure, registered, resources, ran, self,
                    constructed, initOp, idp, db, calls, lastOp, threads,
                    connections >>

TestInit ==
    /\ launch \in TestScripts
    /\ variant = "improved"
    /\ pc = "test"
    /\ \E h \in DOMAIN EnvValues("PGHOST"), u \in DOMAIN EnvValues("PGUSER"),
          p \in DOMAIN EnvValues("PGPASSWORD"), a \in DOMAIN EnvValues("AZURE_USE_AAD"),
          i \in DOMAIN EnvValues("AZURE_SUBSCRIPTION_ID"),
          g \in DOMAIN EnvValues("AZURE_RESOURCE_GROUP") :
          LET choice == [ PGHOST |-> h, PGUSER |-> u, PGPASSWORD |-> p,
                          AZURE_USE_AAD |-> a, AZURE_SUBSCRIPTION_ID |-> i,
                          AZURE_RESOURCE_GROUP |-> g ]
          IN  /\ Deviations(choice) <= MaxDeviations
              /\ environ = Environment(choice)
    /\ waited = 0
    /\ testResult = FALSE
    /\ testLog = << >>
    /\ exitStatus = << >>
    /\ interrupted = FALSE
    /\ startupFailure = ""
    /\ registered = << >>
    /\ resources = { }
    /\ ran = FALSE
    /\ self = BlankSelf(variant)
    /\ constructed = "no"
    /\ initOp = NoInit
    /\ idp = 0
    /\ db = InitialDb
    /\ calls = 0
    /\ lastOp = NoOp
    /\ threads = [ t \in 1..NumThreads |-> Idle ]
    /\ connections = << >>

\* the check of the required variables: "return False" when one is missing
TestCheckVars ==
    /\ launch \in TestScripts /\ pc = "test"
    /\ pc' = IF MissingVars # { } THEN "returned" ELSE "attempt"
    /\ UNCHANGED << testResult, testLog, TestFixedVars >>

\* one iteration of the for loop: psycopg.connect and the test query with
\* the next method of the list; "return True" when they succeed, the next
\* iteration when an except clause caught the failure, "return False" after
\* the last one
TestAttempt ==
    /\ launch \in TestScripts /\ pc = "attempt"
    /\ LET methods == ConnectionMethods(launch)
           i       == Len(testLog) + 1
       IN  \E o \in TestOutcomes :
              /\ testLog' = Append(testLog, << methods[i], o >>)
              /\ testResult' = (o = "ok")
              /\ pc' = IF o = "ok" THEN "returned"
                       ELSE IF AttemptFailed(launch, o) = "raise" THEN "raised"
                       ELSE IF i = Len(methods) THEN "returned"
                       ELSE "attempt"
    /\ UNCHANGED TestFixedVars

TestNext ==
    \/ TestCheckVars
    \/ TestAttempt

TestSpec == TestInit /\ [][TestNext]_vars

----------------------------------------------------------------------------
(* Properties *)

ManagedIdentity == self.aad_in_use = StrTrue

Precedes(a, b, trace) ==
    \E i, j \in 1..Len(trace) : i < j /\ trace[i] = a /\ trace[j] = b

\* the value is a JSON document with an "error" member
IsErrorEnvelope(ret) == ret.json /\ "error" \in DOMAIN ret.obj

ErrorKinds == { << "connection_error" >>, << "unexpected_error" >> }

ReadOnlyVariants == { "improved", "minimal" }

\* C1 (as claimed): in every copy, get_server_config and get_server_parameter
\* called on an adapter whose AZURE_USE_AAD is unset or differs from "True"
\* raise NotImplementedError without touching self.postgresql_client and
\* without a control-plane call.
C1_NotSupportedWithoutAad ==
    (lastOp.tool \in ControlTools /\ environ["AZURE_USE_AAD"] # StrTrue)
        => /\ lastOp.outcome = "raised"
           /\ lastOp.exc = "NotImplementedError"
           /\ lastOp.trace = << >>

RequiredVars ==
    { "PGHOST", "PGUSER" }
    \cup (IF environ["AZURE_USE_AAD"] = StrTrue
          THEN { "AZURE_SUBSCRIPTION_ID", "AZURE_RESOURCE_GROUP" }
          ELSE { "PGPASSWORD" })

\* C3 (as claimed): construction completes only if every variable the active
\* mode requires is set and not empty.
C3_ConstructionRejectsMissingOrEmpty ==
    constructed = "ok" => \A n \in RequiredVars : Truthy(environ[n])

\* C4: mcp.run() is invoked only after the adapter was constructed and every
\* tool registered (and, in main.py, the connection test returned True); a
\* startup failure never reaches mcp.run(), leaves the process waiting to
\* exit or exited, and the exit it causes has status 1 (status 0 belongs to
\* a KeyboardInterrupt alone).
C4_ServesOnlyAfterCompleteStartup ==
    /\ ran => /\ constructed = "ok"
              /\ startupFailure = ""
              /\ launch = "main" => testResult /\ registered = MainTools
              /\ launch = "rwmain" => registered = RwTools /\ resources # { }
    /\ (launch = "main" /\ ~testResult) => pc \in { "test", "wait", "exited" }
    /\ (launch # "direct" /\ constructed = "failed") => pc = "exited"
    /\ startupFailure # "" => /\ ~ran
                              /\ pc \in { "wait", "fatal_sleep", "exited" }
    /\ (pc = "exited" /\ ~interrupted)
           => /\ startupFailure # ""
              /\ exitStatus = << 1 >>
              /\ ~ran

\* main.py serves after a complete startup
C4_MainServes ==
    /\ launch = "main" /\ pc = "serving" /\ ran
    /\ testResult /\ constructed = "ok" /\ Len(registered) = 5

\* C5 (as claimed): main.py with AZURE_USE_AAD = "True", PGHOST, PGUSER,
\* AZURE_SUBSCRIPTION_ID and AZURE_RESOURCE_GROUP set and PGPASSWORD unset
\* does not fail its startup on the connection test.
C5_ManagedIdentityStartsWithoutPassword ==
    ( /\ launch = "main"
      /\ environ["AZURE_USE_AAD"] = StrTrue
      /\ environ["PGPASSWORD"] = None
      /\ \A n \in { "PGHOST", "PGUSER", "AZURE_SUBSCRIPTION_ID",
                    "AZURE_RESOURCE_GROUP" } : Truthy(environ[n]) )
        => startupFailure # "connection_test"

\* C6 (as claimed): a failure inside get_databases, get_schemas or query_data
\* never propagates; the tool returns a JSON envelope whose error string is
\* not empty.
C6_ReadFailureGivesEnvelope ==
    (lastOp.tool \in ReadTools /\ lastOp.caught # "")
        => /\ lastOp.outcome = "returned"
           /\ IsErrorEnvelope(lastOp.ret)
           /\ lastOp.ret.obj.error # << >>

\* C6 (amended): a failure inside get_databases, get_schemas or query_data
\* never propagates; the improved copy returns a JSON envelope whose error
\* string is not empty, the minimal and the read/write copy return "".
C6_ReadFailureIsCaught ==
    (lastOp.tool \in ReadTools /\ lastOp.caught # "")
        => /\ lastOp.outcome = "returned"
           /\ lastOp.exc = ""
           /\ IF variant = "improved"
              THEN IsErrorEnvelope(lastOp.ret) /\ lastOp.ret.obj.error # << >>
              ELSE lastOp.ret = EmptyString

\* a failed connection of query_data in the minimal copy, answered with ""
C6_MinimalReturnsEmptyString ==
    /\ variant = "minimal"
    /\ lastOp.tool = "query_data" /\ lastOp.caught = "OperationalError"
    /\ lastOp.outcome = "returned" /\ lastOp.ret = EmptyString

\* C7 (as claimed): every error envelope of get_databases, get_schemas and
\* query_data has an error string and a kind of the fixed enumeration.
C7_EnvelopeHasErrorAndKind ==
    (lastOp.tool \in ReadTools /\ IsErrorEnvelope(lastOp.ret))
        => /\ "type" \in DOMAIN lastOp.ret.obj
           /\ lastOp.ret.obj.type \in ErrorKinds

\* C7 (amended): every error envelope of get_databases, get_schemas and
\* query_data has a non-empty error string; only the envelope of
\* get_databases also has a kind ("type": connection_error or
\* unexpected_error), the envelopes of get_schemas and query_data have the
\* error string alone.
C7_OnlyGetDatabasesHasKind ==
    (lastOp.tool \in ReadTools /\ IsErrorEnvelope(lastOp.ret))
        => /\ lastOp.ret.obj.error # << >>
           /\ IF lastOp.tool = "get_databases"
              THEN /\ DOMAIN lastOp.ret.obj = { "error", "type" }
                   /\ lastOp.ret.obj.type \in ErrorKinds
              ELSE DOMAIN lastOp.ret.obj = { "error" }

\* an envelope of get_schemas: an error string and no kind
C7_SchemasEnvelopeWithoutKind ==
    /\ lastOp.tool = "get_schemas"
    /\ IsErrorEnvelope(lastOp.ret)
    /\ "type" \notin DOMAIN lastOp.ret.obj

\* C8: update_values, create_table and drop_table commit after the statement
\* executed and before the connection is closed; when connecting or
\* executing fails, no commit is issued, the database keeps its state and
\* the exception reaches the caller.
C8_ExecAndCommit ==
    lastOp.tool \in MutatingTools
        => /\ lastOp.outcome = "returned"
                => /\ Precedes("execute", "conn.commit()", lastOp.trace)
                   /\ Precedes("conn.commit()", "close", lastOp.trace)
                   /\ db = EngineExecute(lastOp.dbBefore, lastOp.stmt).db
           /\ lastOp.caught # ""
                => /\ lastOp.outcome = "raised"
                   /\ lastOp.exc = lastOp.caught
                   /\ ~Occurs("conn.commit()", lastOp.trace)
                   /\ ~Occurs("exit:commit", lastOp.trace)
                   /\ db = lastOp.dbBefore
           /\ lastOp.outcome = "returned" <=> lastOp.caught = ""

\* drop_table committed the drop of an existing table
C8_DropCommitted ==
    /\ lastOp.tool = "drop_table" /\ lastOp.stmt = "DROP TABLE users"
    /\ lastOp.outcome = "returned"
    /\ lastOp.dbBefore.users /\ ~db.users

\* query_data submitted DROP TABLE users to a database that has the table,
\* and the engine executed it
DropExecutedByQueryData ==
    /\ lastOp.tool = "query_data" /\ lastOp.stmt = "DROP TABLE users"
    /\ lastOp.dbBefore.users
    /\ Occurs("fetchall", lastOp.trace)

\* C9 (as claimed): after query_data(dbname, "DROP TABLE users") the drop is
\* persisted.
C9_DropPersisted == DropExecutedByQueryData => ~db.users

\* C9 (amended): query_data(dbname, "DROP TABLE users") submits the statement,
\* but the statement has no result set: fetchall raises, the connection
\* block rolls the transaction back and the tool returns its error value;
\* after the invocation the table is still there.
C9_DropRolledBack ==
    DropExecutedByQueryData
        => /\ db = lastOp.dbBefore
           /\ db.users
           /\ lastOp.caught = "ProgrammingError"
           /\ Occurs("exit:rollback", lastOp.trace)
           /\ ~Occurs("exit:commit", lastOp.trace)
           /\ lastOp.outcome = "returned"
           /\ IF variant = "improved" THEN IsErrorEnvelope(lastOp.ret)
              ELSE lastOp.ret = EmptyString

\* the engine executed the drop inside query_data's transaction
C9_DropWasExecuted ==
    /\ DropExecutedByQueryData
    /\ Precedes("execute", "fetchall", lastOp.trace)

\* C10 (as claimed): in the read-only copies no sequence of tool invocations
\* changes the committed state of the database.
C10_ReadOnlyLeavesNoChange ==
    variant \in ReadOnlyVariants => db = InitialDb

RECURSIVE Count(_, _)
\* how many times event e occurs in a trace
Count(e, trace) ==
    IF trace = << >> THEN 0
    ELSE (IF Head(trace) = e THEN 1 ELSE 0) + Count(e, Tail(trace))

\* the tools that talk to the database
DatabaseTools == ReadTools \cup MutatingTools \cup { "get_databases_resource" }

\* C11: no statement is retried: every invocation of a database tool,
\* whatever its outcome, makes exactly one connection attempt and submits its
\* statement at most once (never after a failed connect, never a second time
\* after a failure).
C11_NoRetry ==
    lastOp.tool \in DatabaseTools
        => /\ Count("connect", lastOp.trace) = 1
           /\ Count("execute", lastOp.trace) <= 1
           /\ Count("fetchall", lastOp.trace) <= 1
           /\ Count("conn.commit()", lastOp.trace) <= 1
           /\ lastOp.caught \in ConnectOutcomes \ { "ok" }
                => Count("execute", lastOp.trace) = 0

\* a mutating tool whose statement failed: submitted once, not again
C11_FailedStatementSubmittedOnce ==
    /\ lastOp.tool = "update_values" /\ lastOp.caught = "DatabaseError"
    /\ Count("connect", lastOp.trace) = 1
    /\ Count("execute", lastOp.trace) = 1
    /\ db = lastOp.dbBefore

\* the invocation got a connection: cur.execute is the first call made on an
\* established connection, a failed connect is followed by no call at all
Established(trace) == Occurs("execute", trace)

\* connections an invocation left open when it finished
OpenConnections(trace) ==
    (IF Established(trace) THEN 1 ELSE 0) - Count("close", trace)

\* C12: when an invocation of a database tool has finished (result, error
\* value or exception), the connection it opened is closed: close is its
\* last call and no connection stays open; a failed connect leaves nothing
\* to close; and every statement runs on a connection opened earlier in the
\* same invocation, never on one kept from a previous invocation.
C12_ConnectionReleased ==
    lastOp.tool \in DatabaseTools
        => /\ OpenConnections(lastOp.trace) = 0
           /\ Established(lastOp.trace)
                => /\ lastOp.trace[Len(lastOp.trace)] = "close"
                   /\ Precedes("connect", "execute", lastOp.trace)
                   /\ \/ Occurs("exit:commit", lastOp.trace)
                      \/ Occurs("exit:rollback", lastOp.trace)
           /\ ~Established(lastOp.trace) => ~Occurs("close", lastOp.trace)

\* a second invocation whose statement failed after the connection was
\* made: rolled back and closed
C12_ClosedAfterFailure ==
    /\ calls = 2
    /\ lastOp.tool = "query_data" /\ lastOp.caught = "DatabaseError"
    /\ Established(lastOp.trace)
    /\ lastOp.trace[Len(lastOp.trace)] = "close"

\* C13 (as claimed): when the identity provider issues no token, the
\* construction fails and no database connection is attempted at any point
\* of that startup or afterwards: neither the startup connection test nor a
\* tool called psycopg.connect.
C13_NoConnectionWhenTokenFails ==
    initOp.exc = "ClientAuthenticationError"
        => /\ constructed = "failed"
           /\ testLog = << >>
           /\ ~Occurs("connect", lastOp.trace)

\* the control-plane calls made during an invocation
ControlPlaneCalls(trace) ==
    Count("servers.get", trace) + Count("configurations.get", trace)

\* C14: in managed-identity mode a failure of the control-plane call of
\* get_server_config or get_server_parameter reaches the caller as the
\* exception the control plane raised, no value is returned in its place,
\* and the call was made once; no invocation of these tools makes more than
\* one control-plane call.
C14_ControlPlaneFailurePropagates ==
    lastOp.tool \in ControlTools
        => /\ ControlPlaneCalls(lastOp.trace) <= 1
           /\ (ManagedIdentity /\ lastOp.caught \in ControlPlaneOutcomes \ { "ok" })
                => /\ lastOp.outcome = "raised"
                   /\ lastOp.exc = lastOp.caught
                   /\ lastOp.ret = NoValue
                   /\ ControlPlaneCalls(lastOp.trace) = 1

\* get_server_parameter in managed-identity mode, refused by the control plane
C14_ParameterCallFailed ==
    /\ ManagedIdentity
    /\ lastOp.tool = "get_server_parameter"
    /\ lastOp.caught = "HttpResponseError"
    /\ lastOp.outcome = "raised"
    /\ Occurs("configurations.get", lastOp.trace)

\* an attribute that exists and holds a value other than None and ""
IsSet(x) == x # NoAttr /\ Truthy(x)

PasswordMode == environ["AZURE_USE_AAD"] # StrTrue

C17_BoundedConnectTimeout ==
    Occurs("connect", lastOp.trace) => lastOp.timeout = ConnectTimeoutSeconds

\* C18 (as claimed): for every non-empty password, no printed string that
\* embeds the masked connection string contains the password.
C18_MaskedStringHidesPassword ==
    \A i \in DOMAIN lastOp.printed :
        self.password # << >> => ~Contains(lastOp.printed[i], self.password)

\* C19: no tool invocation, whether it returns a result, returns an error
\* value or raises, changes an attribute of the adapter: dbhost, dbuser,
\* aad_in_use, password, subscription_id, resource_group_name, server_name
\* (and the credential and client objects) are after the invocation what
\* they were before it.
C19_ToolsLeaveConfigUnchanged == [][calls' # calls => self' = self]_vars

\* a second invocation that raised, on a constructed adapter
C19_InvocationRaised ==
    /\ constructed = "ok" /\ calls = 2
    /\ lastOp.tool \in MutatingTools \cup ControlTools
    /\ lastOp.outcome = "raised"

\* what the invocation of thread record th returns, raises and commits when
\* it runs alone on the database state it saw
Alone(th) ==
    CASE th.tool = "query_data" ->
           query_data(variant, self, th.seen, th.dbname, th.stmt, th.connOutcome,
                      th.execOk, ConcMessage, idp)
      [] th.tool = "get_schemas" ->
           get_schemas(variant, self, th.seen, th.dbname, th.connOutcome,
                       th.execOk, ConcMessage, idp)
      [] OTHER ->
           exec_and_commit(self, th.seen, th.dbname, th.stmt, th.connOutcome,
                           th.execOk, idp)

\* C20: with tool invocations interleaved in any order on one adapter, every
\* invocation works only on the connection it opened itself, which is open
\* while the invocation uses it, and an invocation that is over has made the
\* same calls, returned or raised the same value and committed the same
\* change as the invocation run alone on the database state its statement
\* saw.
C20_IndependentInvocations ==
    \A t \in 1..NumThreads :
       LET th == threads[t]
           a  == Alone(th)
       IN  /\ th.pc \in { "execute", "fetchall", "commit", "exit" }
                => /\ ConnectionUsed(t) \in DOMAIN connections
                   /\ connections[ConnectionUsed(t)].owner = t
                   /\ connections[ConnectionUsed(t)].open
           /\ th.pc = "done"
                => /\ th.outcome = a.outcome
                   /\ th.exc = a.exc
                   /\ th.caught = a.caught
                   /\ th.ret = a.ret
                   /\ th.trace = a.trace
                   /\ th.wrote = a.db
                   /\ th.conn # 0 => ~connections[th.conn].open

\* two invocations overlapped: one connected first and is still running, the
\* other connected after it, committed a change and is over
C20_InvocationsOverlapped ==
    \E t1, t2 \in 1..NumThreads :
       /\ t1 # t2
       /\ threads[t1].pc = "done" /\ threads[t1].wrote # threads[t1].seen
       /\ threads[t2].pc \in { "execute", "fetchall", "exit" }
       /\ 0 < threads[t2].conn /\ threads[t2].conn < threads[t1].conn

\* the server part of a resource URI flexpg://<name>/databases
UriServerPart(uri) == SubSeq(uri, 2, Len(uri) - 1)

\* C21: on a constructed adapter the databases resource has the URI
\* flexpg://<name>/databases where <name> is PGHOST up to its first "." (all
\* of PGHOST when it has none), a registered resource carries that URI, a
\* server_name set by construction equals <name>, and for every outcome of
\* the connection and of the catalog query get_databases_resource returns
\* the value get_databases returns and leaves the same database.
C21_DatabasesResource ==
    constructed = "ok" =>
       LET uri  == get_dbs_resource_uri(self)
           host == environ["PGHOST"]
           name == UriServerPart(uri)
       IN  /\ Len(uri) >= 2
           /\ Head(uri) = "flexpg://"
           /\ uri[Len(uri)] = "/databases"
           /\ Len(name) <= Len(host)
           /\ name = SubSeq(host, 1, Len(name))
           /\ \A i \in 1..Len(name) : name[i] # "."
           /\ Len(name) < Len(host) => host[Len(name) + 1] = "."
           /\ resources \subseteq { uri }
           /\ IsSet(self.server_name) => self.server_name = name
           /\ \A e \in Scenarios(FALSE) :
                 LET tool == get_databases_internal(variant, "get_databases", self,
                                                    db, e.conn, e.execOk, e.msg, idp)
                     res  == get_databases_internal(variant, "get_databases_resource",
                                                    self, db, e.conn, e.execOk, e.msg,
                                                    idp)
                 IN  /\ res.outcome = tool.outcome
                     /\ res.ret = tool.ret
                     /\ res.db = tool.db

\* the registered databases resource of the read/write server is read on a
\* managed-identity adapter whose host name has a "."
C21_ResourceRead ==
    /\ launch = "rwmain"
    /\ pc = "serving"
    /\ get_dbs_resource_uri(self) \in resources
    /\ ManagedIdentity
    /\ self.server_name = UriServerPart(get_dbs_resource_uri(self))
    /\ Len(self.server_name) < Len(self.dbhost)
    /\ lastOp.tool = "get_databases_resource"
    /\ lastOp.caught = ""

\* C22: in the read-only entry point main.py no mutating tool is ever
\* registered, the tools registered at any moment are the first ones of
\* get_databases, get_schemas, query_data, get_server_config,
\* get_server_parameter in that order, and all five are registered once
\* mcp.run() has been called; update_values, create_table and drop_table are
\* registered, and invoked, only on the read/write copy.
C22_MutatingToolsOnlyInReadWrite ==
    LET five == << "get_databases", "get_schemas", "query_data",
                   "get_server_config", "get_server_parameter" >>
        mutating == { "update_values", "create_table", "drop_table" }
    IN  /\ launch = "main"
             => /\ Range(registered) \cap mutating = { }
                /\ Len(registered) <= Len(five)
                /\ registered = SubSeq(five, 1, Len(registered))
                /\ ran => registered = five
                /\ pc \in { "run", "serving" } => registered = five
        /\ Range(registered) \cap mutating # { }
             => launch = "rwmain" /\ variant = "rw"
        /\ lastOp.tool \in mutating => variant = "rw"

\* the read-only server runs with its five tools, and one of them has been
\* called
C22_ReadOnlyServerServes ==
    /\ launch = "main"
    /\ pc = "serving"
    /\ ran
    /\ Len(registered) = 5
    /\ lastOp.tool = "query_data"

\* C23 (as claimed): on a constructed adapter the capability check of
\* get_server_config and get_server_parameter passes exactly when
\* construction took AZURE_USE_AAD for "True", and an invocation that got
\* past the check finds the management client, the resource group name and
\* the server name that construction set.
C23_CapabilityCheckMatchesConstruction ==
    constructed = "ok" =>
       /\ CapabilityCheck(variant, self) <=> self.aad_in_use = StrTrue
       /\ (lastOp.tool \in ControlTools /\ lastOp.exc # "NotImplementedError")
             => /\ self.postgresql_client = ClientObj
                /\ IsSet(self.resource_group_name)
                /\ IsSet(self.server_name)

\* the variables construction needs before it resolves the credential
ModeVars ==
    { "PGHOST", "PGUSER" }
    \cup (IF environ["AZURE_USE_AAD"] = StrTrue
          THEN { "AZURE_SUBSCRIPTION_ID", "AZURE_RESOURCE_GROUP" } ELSE { })

\* the event of reading variable n
EnvEvent(n) == "environ:" \o n

\* C24: in a construction that has run, every get_token call comes after
\* the reads of PGHOST and PGUSER (and, in managed-identity mode, of
\* AZURE_SUBSCRIPTION_ID and AZURE_RESOURCE_GROUP), all of them set, and
\* after the creation of the credential object; when one of those variables
\* is unset, construction fails and no token is requested.
C24_CredentialResolvedAfterModeSetup ==
    constructed # "no" =>
       LET tr == initOp.trace
       IN  /\ \A i \in 1..Len(tr) :
                 tr[i] = "get_token"
                    => /\ \A n \in ModeVars :
                             /\ environ[n] # None
                             /\ \E j \in 1..(i - 1) : tr[j] = EnvEvent(n)
                       /\ \E j \in 1..(i - 1) : tr[j] = "DefaultAzureCredential()"
           /\ (\E n \in ModeVars : environ[n] = None)
                 => /\ constructed = "failed"
                    /\ ~initOp.ok
                    /\ ~Occurs("get_token", tr)
                    /\ ~Occurs("DefaultAzureCredential()", tr)

\* a managed-identity construction failed on the unset AZURE_RESOURCE_GROUP
C24_FailedBeforeToken ==
    /\ constructed = "failed"
    /\ environ["AZURE_USE_AAD"] = StrTrue
    /\ environ["AZURE_RESOURCE_GROUP"] = None
    /\ Occurs("environ:AZURE_RESOURCE_GROUP", initOp.trace)
    /\ initOp.exc = "EnvironmentError"

\* the attempts of a test run so far that failed
AllFailed(log) == \A i \in 1..Len(log) : log[i][2] # "ok"

\* C25 (as claimed): every test_database_connection tries SSL required, SSL
\* preferred, basic, in that order.
C25_RequiredPreferredBasic ==
    LET listed == << "SSL Required", "SSL Preferred", "Basic Connection" >>
    IN  /\ Len(testLog) <= Len(listed)
        /\ \A i \in 1..Len(testLog) : testLog[i][1] = listed[i]

\* C25: test_database_connection tries the methods of its own list in the
\* order of the list (SSL required, SSL preferred, basic in main.py and
\* db_utils.py; basic, SSL required, SSL preferred and the two URI forms in
\* test.py), each at most once; no method is tried after one succeeded; no
\* failure leaves the function; it returns True exactly when the last method
\* tried succeeded, and returns False with every variable present only after
\* all methods of the list failed.
C25_MethodsTriedInListOrder ==
    LET listed == IF launch = "test.py"
                  THEN << "Basic Connection", "SSL Required", "SSL Preferred",
                          "URI", "URI SSL Required" >>
                  ELSE << "SSL Required", "SSL Preferred", "Basic Connection" >>
        present == \A n \in { "PGHOST", "PGUSER", "PGPASSWORD" } :
                      environ[n] # None /\ environ[n] # << >>
    IN  /\ pc \in { "test", "attempt", "returned" }
        /\ Len(testLog) <= Len(listed)
        /\ \A i \in 1..Len(testLog) : testLog[i][1] = listed[i]
        /\ \A i \in 1..(Len(testLog) - 1) : testLog[i][2] # "ok"
        /\ pc = "attempt" => AllFailed(testLog) /\ Len(testLog) < Len(listed)
        /\ (pc = "returned" /\ testResult)
              => testLog # << >> /\ testLog[Len(testLog)][2] = "ok"
        /\ (pc = "returned" /\ ~testResult /\ present)
              => Len(testLog) = Len(listed) /\ AllFailed(testLog)

\* test.py's test returned True at its fourth method, after an operational,
\* a database and an unexpected error
C25_FourthMethodConnected ==
    /\ launch = "test.py"
    /\ pc = "returned"
    /\ testResult
    /\ testLog = << << "Basic Connection", "OperationalError" >>,
                    << "SSL Required", "DatabaseError" >>,
                    << "SSL Preferred", "Exception" >>,
                    << "URI", "ok" >> >>

\* C26: once test_database_connection is past its check of the variables
\* with PGHOST, PGUSER or PGPASSWORD unset or empty, it has returned False
\* and has attempted no connection, whatever AZURE_USE_AAD is.
C26_MissingVariableNoConnection ==
    (/\ pc # "test"
     /\ \E n \in { "PGHOST", "PGUSER", "PGPASSWORD" } :
           environ[n] = None \/ environ[n] = << >>)
       => /\ pc = "returned"
          /\ ~testResult
          /\ testLog = << >>

\* the test returned False on an empty PGPASSWORD in managed-identity mode
C26_EmptyPasswordRejected ==
    /\ pc = "returned"
    /\ environ["PGPASSWORD"] = << >>
    /\ environ["AZURE_USE_AAD"] = StrTrue
    /\ ~testResult

\* what holds at every moment of a main() whose connection test failed
FailedTestSafety ==
    /\ waited <= 120
    /\ (launch = "main" /\ pc # "test" /\ ~testResult)
          => /\ pc \in { "wait", "exited" }
             /\ constructed = "no"
             /\ initOp = NoInit
             /\ registered = << >>
             /\ resources = { }
             /\ ~ran
             /\ calls = 0
             /\ pc = "exited"
                   => \/ interrupted /\ exitStatus = << 0 >>
                      \/ ~interrupted /\ exitStatus = << 1 >> /\ waited = 120
    /\ (launch = "main" /\ exitStatus = << 0 >>) => interrupted

\* C27: after main()'s connection test returned False nothing is imported,
\* constructed or registered; main() waits at most 120 one-second steps and,
\* unless a KeyboardInterrupt ends it, the wait leads to sys.exit(1) after
\* exactly 120 steps, which no handler of main() catches; main() calls
\* sys.exit(0) only in its KeyboardInterrupt handler.
C27_FailedTestWaitsThenExits ==
    /\ []FailedTestSafety
    /\ (launch = "main" /\ pc = "wait") ~> (pc = "exited")

\* main() exited with status 1 after the full wait
C27_ExitedAfterWait ==
    /\ launch = "main"
    /\ pc = "exited"
    /\ ~testResult
    /\ waited = 120
    /\ exitStatus = << 1 >>
    /\ ~interrupted

\* C28: in the improved copy an invocation of get_databases (tool or
\* resource) in which an exception was raised returns one JSON document with
\* the members error and type, where type is "connection_error" when the
\* exception is the driver's OperationalError and "unexpected_error" for
\* every other exception; an invocation without exception returns no
\* envelope.
C28_EnvelopeTypeNamesFailureClass ==
    (variant = "improved"
     /\ lastOp.tool \in { "get_databases", "get_databases_resource" })
       => /\ lastOp.outcome = "returned"
          /\ lastOp.ret.json
          /\ IF lastOp.caught = ""
             THEN DOMAIN lastOp.ret.obj = { "columns", "rows" }
             ELSE /\ DOMAIN lastOp.ret.obj = { "error", "type" }
                  /\ lastOp.ret.obj.type =
                        IF lastOp.caught = "OperationalError"
                        THEN << "connection_error" >>
                        ELSE << "unexpected_error" >>

\* the connection of get_databases failed with the driver's OperationalError
C28_ConnectionErrorReported ==
    /\ variant = "improved"
    /\ lastOp.tool = "get_databases"
    /\ lastOp.caught = "OperationalError"
    /\ lastOp.ret.json
    /\ lastOp.ret.obj.type = << "connection_error" >>

=============================================================================
